---- MODULE Spec2Model ----
(***************************************************************************)
(* Model of plugins/grep/clamav.py: the ClamAV grep plugin of w3af.        *)
(*                                                                         *)
(* Several worker threads call clamav.grep(request, response) on one       *)
(* plugin instance.  The shared state is the plugin's fields, the          *)
(* knowledge base written through kb_append and the output manager's log.  *)
(* Every call into clamd (ping, version, instream) is a blocking round     *)
(* trip: the call and its return are separate steps, and the daemon's      *)
(* answer (or a transport error) is chosen by the environment.             *)
(***************************************************************************)
EXTENDS Integers, Sequences, FiniteSets, TLC

(* ------------------------------ bounds --------------------------------- *)

\* Number of worker threads of the surrounding pipeline.
NumThreads == 2

\* Total number of grep() invocations in one run.
MaxCalls == 3

Threads == 1..NumThreads

NoThread == 0

(* ------------------------- Python values ------------------------------- *)

PyNone == [t |-> "None"]

\* A str is the sequence of its characters, so that s[i] can be taken.
PyStr(chars) == [t |-> "str", v |-> chars]

PyTuple(elems) == [t |-> "tuple", v |-> elems]

\* A dict with str keys: v is a function from the keys to the values.
PyDict(f) == [t |-> "dict", v |-> f]

EmptyDict == PyDict(<<>>)

StreamDict(x) == PyDict([stream |-> x])

S_FOUND == PyStr(<<"F", "O", "U", "N", "D">>)

S_OK == PyStr(<<"O", "K">>)

S_ERROR == PyStr(<<"E", "R", "R", "O", "R">>)

S_Eicar == PyStr(<<"E", "i", "c", "a", "r", "-", "T", "e", "s", "t", "-",
                   "S", "i", "g", "n", "a", "t", "u", "r", "e">>)

Value(x) == [ok |-> TRUE, val |-> x]

Raise(e) == [ok |-> FALSE, exc |-> e]

\* obj[key] for a str key.
GetItemStr(obj, key) ==
    CASE obj.t = "dict" -> IF key \in DOMAIN obj.v THEN Value(obj.v[key])
                           ELSE Raise("KeyError")
      [] OTHER -> Raise("TypeError")

\* obj[i] for a non-negative int i (Python indexes from 0).
GetItemInt(obj, i) ==
    CASE obj.t = "tuple" -> IF i < Len(obj.v) THEN Value(obj.v[i + 1])
                            ELSE Raise("IndexError")
      [] obj.t = "str" -> IF i < Len(obj.v) THEN Value(PyStr(<<obj.v[i + 1]>>))
                          ELSE Raise("IndexError")
      [] obj.t = "dict" -> Raise("KeyError")
      [] OTHER -> Raise("TypeError")

\* '%s' % x
PyFormat(x) ==
    CASE x.t = "str" -> x.v
      [] x.t = "None" -> <<"N", "o", "n", "e">>
      [] OTHER -> <<"(", ")">>

(* ----------------------- program constants ----------------------------- *)

METHODS == {"GET"}

HTTP_CODES == {200}

DefaultSocket == "/var/run/clamav/clamd.ctl"

(* ----------------------- the environment ------------------------------- *)

\* What the traffic source can deliver.
Methods == {"GET", "POST"}

Codes == {200, 404}

URLs == {"http://x/test", "http://x/other"}

\* Every method and status code for the first URL, and the allowed ones for
\* the other.
Requests ==
    {r \in [method : Methods, code : Codes, url : URLs] :
        r.url = "http://x/test" \/ (r.method = "GET" /\ r.code = 200)}

NoRequest == [method |-> "", code |-> 0, url |-> ""]

SocketPaths == {DefaultSocket, "/tmp/clamd.sock"}

\* What cd.ping() can do: answer PONG, answer something else, or raise.
PingOutcomes == {Value("PONG"), Value("PING"), Raise("ConnectionError")}

\* What cd.version() can do.
VersionOutcomes == {Value("ClamAV 0.97.8"), Raise("ConnectionError")}

\* What clamd can answer to INSTREAM.
DaemonResponses ==
    { StreamDict(PyTuple(<<S_FOUND, S_Eicar>>)),
      StreamDict(PyTuple(<<S_OK, PyNone>>)),
      StreamDict(PyTuple(<<S_ERROR, S_Eicar>>)),
      StreamDict(PyTuple(<<S_FOUND, S_Eicar, PyNone>>)),
      StreamDict(PyTuple(<<S_OK>>)),
      StreamDict(S_OK),
      EmptyDict,
      PyNone }

\* What cd.instream() can do: answer, or fail on the socket.
ScanOutcomes == {Value(r) : r \in DaemonResponses} \cup {Raise("ConnectionError")}

(* ------------------------------ state ---------------------------------- *)

VARIABLES
    _already_analyzed,     \* the ScalableBloomFilter, as the set of URLs added
    _properly_configured,  \* "None", "True" or "False"
    _config_check_lock,    \* the thread that holds the RLock, or NoThread
    _clamd_socket,         \* the configured unix socket path
    kb,                    \* the calls to kb_append, in order
    om_out,                \* the messages given to the output manager, in order
    pc,                    \* per thread: the line of clamav.py it stands at
    req,                   \* per thread: the (request, response) of its grep call
    escaped,               \* the exceptions that have left grep, with their line
    calls,                 \* number of grep calls started
    pings,                 \* number of cd.ping() calls made
    scans,                 \* per URL: number of cd.instream() calls made
    contains_by,           \* the requests whose grep call tested the filter
    add_by,                \* the requests whose grep call added to the filter
    probe_returns,         \* the values _is_properly_configured has returned
    false_positive,        \* the filter has answered True for a URL never added
    overlapped,            \* per URL: two grep calls for it were active at once
    finished,              \* per URL: grep calls that got past line 82 and ended
    refused,               \* the URLs of the grep calls that returned at line 82
    at_call,               \* per thread: what its grep call found when it began
    last_ping,             \* what the latest cd.ping() did
    last_scan              \* the latest completed instream call and its effect

vars == <<_already_analyzed, _properly_configured, _config_check_lock,
          _clamd_socket, kb, om_out, pc, req, escaped, calls, pings, scans,
          contains_by, add_by, probe_returns, false_positive, overlapped,
          finished, refused, at_call, last_ping, last_scan>>

\* last_scan before any scan.  Afterwards: the URL scanned, what instream did
\* (raw), what _parse_scan_result did with its answer (parsed), the exception
\* that left _scan_http_response (raised, "" for none) and the calls of
\* kb_append it made (appended).
NoParse == [ret |-> PyNone, raised |-> "", log |-> <<>>]

NoScan == [done |-> FALSE, url |-> "", raw |-> Raise("none"),
           parsed |-> NoParse, raised |-> "", appended |-> <<>>]

\* at_call outside a grep call.  In a call: whether the lock of
\* _is_properly_configured was held when the call began (kept until the call
\* has taken the lock, line 96), and whether the response's URL was then in
\* the filter (kept until the call has tested the filter, line 84).
NoCall == [locked |-> FALSE, seen |-> FALSE]

NoPing == Raise("none")

\* clamav.__init__
Init ==
    /\ _already_analyzed = {}
    /\ _properly_configured = "None"
    /\ _config_check_lock = NoThread
    /\ _clamd_socket = DefaultSocket
    /\ kb = <<>>
    /\ om_out = <<>>
    /\ pc = [t \in Threads |-> "idle"]
    /\ req = [t \in Threads |-> NoRequest]
    /\ escaped = {}
    /\ calls = 0
    /\ pings = 0
    /\ scans = [u \in URLs |-> 0]
    /\ contains_by = {}
    /\ add_by = {}
    /\ probe_returns = {}
    /\ false_positive = FALSE
    /\ overlapped = [u \in URLs |-> FALSE]
    /\ finished = [u \in URLs |-> 0]
    /\ refused = {}
    /\ at_call = [t \in Threads |-> NoCall]
    /\ last_ping = NoPing
    /\ last_scan = NoScan

(* ------------------------- pure functions ------------------------------ *)

\* ScanResult = namedtuple('ScanResult', ['found', 'signature'])
ScanResult(found, signature) ==
    [t |-> "ScanResult", found |-> found, signature |-> signature]

\* ParseTry with the two indices exchanged.
ParseTry_swapped(result) ==
    LET stream == GetItemStr(result, "stream") IN
    IF ~stream.ok THEN stream
    ELSE LET signature == GetItemInt(stream.val, 0) IN
         IF ~signature.ok THEN signature
         ELSE LET status == GetItemInt(stream.val, 1) IN
              IF ~status.ok THEN status
              ELSE Value(ScanResult(status.val = S_FOUND, signature.val))

\* ParseTry keeping the signature of a match only.
ParseTry_cleared(result) ==
    LET stream == GetItemStr(result, "stream") IN
    IF ~stream.ok THEN stream
    ELSE LET signature == GetItemInt(stream.val, 1) IN
         IF ~signature.ok THEN signature
         ELSE LET status == GetItemInt(stream.val, 0) IN
              IF ~status.ok THEN status
              ELSE Value(ScanResult(status.val = S_FOUND,
                                    IF status.val = S_FOUND THEN signature.val
                                    ELSE PyNone))

\* The body of the try block of _parse_scan_result: the value returned, or
\* the exception raised inside it.
ParseTry(result) ==
    LET stream == GetItemStr(result, "stream") IN
    IF ~stream.ok THEN stream
    ELSE LET signature == GetItemInt(stream.val, 1) IN
         IF ~signature.ok THEN signature
         ELSE LET status == GetItemInt(stream.val, 0) IN
              IF ~status.ok THEN status
              ELSE Value(ScanResult(status.val = S_FOUND, signature.val))

\* _parse_scan_result: ret is the value returned, raised the exception that
\* leaves the function ("" for none), log the messages written.  The bare
\* except logs the invalid response and falls off the end of the function,
\* which returns None.
_parse_scan_result(result) ==
    LET tried == ParseTry(result) IN
    IF tried.ok THEN [ret |-> tried.val, raised |-> "", log |-> <<>>]
    ELSE [ret |-> PyNone, raised |-> "",
          log |-> <<[level |-> "debug", arg |-> "Invalid response from clamd"]>>]

\* result.found
GetAttrFound(result) ==
    IF result.t = "ScanResult" THEN Value(result.found)
    ELSE Raise("AttributeError")

\* Finding without the call of i.set_url.
Finding_no_url(url, signature) ==
    [category |-> "malware",
     name |-> "Malware identified",
     desc |-> [url |-> url, signature |-> PyFormat(signature)],
     url |-> "",
     plugin |-> "clamav"]

\* The Info object built and handed to kb_append by _scan_http_response.
Finding(url, signature) ==
    [category |-> "malware",
     name |-> "Malware identified",
     desc |-> [url |-> url, signature |-> PyFormat(signature)],
     url |-> url,
     plugin |-> "clamav"]

\* _connection_test without the comparison with u'PONG'.
_connection_test_any(ping) == ping.ok

\* _connection_test, given what cd.ping() did: the bare except turns any
\* error into False.
_connection_test(ping) == ping.ok /\ ping.val = "PONG"

\* Allowed with the guard's `or` written `and`.
Allowed_either(r) == r.method \in METHODS \/ r.code \in HTTP_CODES

\* The guard of lines 80-82 of grep, negated: the request goes on.
Allowed(r) == r.method \in METHODS /\ r.code \in HTTP_CODES

\* The answers `url in self._already_analyzed` can give.  A bloom filter
\* has no false negatives; an empty one has no false positives either.
BloomContains(url) ==
    IF url \in _already_analyzed THEN {TRUE}
    ELSE IF _already_analyzed = {} THEN {FALSE}
    ELSE {TRUE, FALSE}

(* --------------------------- control flow ------------------------------ *)

Goto(t, line) ==
    /\ pc' = [pc EXCEPT ![t] = line]
    /\ UNCHANGED <<req, escaped, finished, refused, at_call>>

\* Thread t has taken the lock of line 96 and goes on to the given line.
Locked(t, line) ==
    /\ pc' = [pc EXCEPT ![t] = line]
    /\ at_call' = [at_call EXCEPT ![t].locked = FALSE]
    /\ UNCHANGED <<req, escaped, finished, refused>>

\* No exception: grep returns None.
Returns == [exc |-> "", line |-> 0]

\* Exception exc, raised at the given line, leaves grep.
Escapes(exc, line) == [exc |-> exc, line |-> line]

\* grep ends for thread t, returning (how = Returns) or raising; passed says
\* whether the call got past the guard of lines 80-82.
End(t, how, passed) ==
    /\ pc' = [pc EXCEPT ![t] = "idle"]
    /\ escaped' = IF how = Returns THEN escaped ELSE escaped \cup {how}
    /\ req' = [req EXCEPT ![t] = NoRequest]
    /\ at_call' = [at_call EXCEPT ![t] = NoCall]
    /\ finished' = IF passed THEN [finished EXCEPT ![req[t].url] = @ + 1]
                   ELSE finished

Leave(t, how, passed) == End(t, how, passed) /\ UNCHANGED refused

\* AfterProbe without the test of line 77.
AfterProbe_unchecked(t, val) ==
    IF ~Allowed(req[t])
    THEN End(t, Returns, FALSE) /\ refused' = refused \cup {req[t].url}
    ELSE Locked(t, "L84")

\* AfterProbe with the guard of lines 80-82 before the test of line 77.
AfterProbe_gate_first(t, val) ==
    IF ~Allowed(req[t])
    THEN End(t, Returns, FALSE) /\ refused' = refused \cup {req[t].url}
    ELSE IF val # "True"
         THEN Leave(t, Returns, FALSE)
         ELSE Locked(t, "L84")

\* Lines 77-82 of grep, once _is_properly_configured has returned val.
AfterProbe(t, val) ==
    IF val # "True"
    THEN Leave(t, Returns, FALSE)
    ELSE IF ~Allowed(req[t])
         THEN End(t, Returns, FALSE) /\ refused' = refused \cup {req[t].url}
         ELSE Locked(t, "L84")

(* ------------------------------ actions -------------------------------- *)

\* A worker thread calls grep(request, response).
GrepCall(t, r) ==
    /\ pc[t] = "idle"
    /\ calls < MaxCalls
    /\ calls' = calls + 1
    /\ pc' = [pc EXCEPT ![t] = "L96"]
    /\ req' = [req EXCEPT ![t] = r]
    /\ overlapped' = [overlapped EXCEPT ![r.url] =
                         @ \/ \E s \in Threads \ {t} : req[s].url = r.url]
    /\ at_call' = [at_call EXCEPT ![t] =
                      [locked |-> _config_check_lock # NoThread,
                       seen |-> r.url \in _already_analyzed]]
    /\ UNCHANGED <<_already_analyzed, _properly_configured, _config_check_lock,
                   _clamd_socket, kb, om_out, escaped, pings, scans, contains_by,
                   add_by, probe_returns, false_positive, finished, refused,
                   last_scan,
                   last_ping>>

\* _is_properly_configured, lines 96-99: take the lock and return the cached
\* value (releasing the lock) ...
ProbeCached(t) ==
    /\ pc[t] = "L96"
    /\ _config_check_lock = NoThread
    /\ _properly_configured # "None"
    /\ probe_returns' = probe_returns \cup {_properly_configured}
    /\ AfterProbe(t, _properly_configured)
    /\ UNCHANGED <<_already_analyzed, _properly_configured, _config_check_lock,
                   _clamd_socket, kb, om_out, calls, pings, scans, contains_by,
                   add_by, false_positive, overlapped, last_scan,
                   last_ping>>

\* ProbeStart without the lock of line 96.
ProbeStart_unlocked(t) ==
    /\ pc[t] = "L96"
    /\ _properly_configured = "None"
    /\ _config_check_lock' = t
    /\ pings' = pings + 1
    /\ Locked(t, "L121")
    /\ UNCHANGED <<_already_analyzed, _properly_configured, _clamd_socket, kb,
                   om_out, calls, scans, contains_by, add_by, probe_returns,
                   false_positive, overlapped, last_scan, last_ping>>

\* ProbeStart without the test of line 97.
ProbeStart_unguarded(t) ==
    /\ pc[t] = "L96"
    /\ _config_check_lock = NoThread
    /\ _config_check_lock' = t
    /\ pings' = pings + 1
    /\ Locked(t, "L121")
    /\ UNCHANGED <<_already_analyzed, _properly_configured, _clamd_socket, kb,
                   om_out, calls, scans, contains_by, add_by, probe_returns,
                   false_positive, overlapped, last_scan, last_ping>>

\* ... or, lines 96-101 and 119-121, keep the lock and ping the daemon.
ProbeStart(t) ==
    /\ pc[t] = "L96"
    /\ _config_check_lock = NoThread
    /\ _properly_configured = "None"
    /\ _config_check_lock' = t
    /\ pings' = pings + 1
    /\ Locked(t, "L121")
    /\ UNCHANGED <<_already_analyzed, _properly_configured, _clamd_socket, kb,
                   om_out, calls, scans, contains_by, add_by, probe_returns,
                   false_positive, overlapped, last_scan,
                   last_ping>>

\* cd.ping() returns or raises: lines 121-123, then 101 and 106-113, or the
\* call of cd.version() of lines 103 and 132-133.
PingReturn(t, ping) ==
    /\ pc[t] = "L121"
    /\ last_ping' = ping
    /\ IF _connection_test(ping)
       THEN /\ Goto(t, "L133")
            /\ UNCHANGED <<_properly_configured, _config_check_lock, om_out,
                           probe_returns>>
       ELSE /\ om_out' = Append(om_out, [level |-> "error", arg |-> _clamd_socket])
            /\ _properly_configured' = "False"
            /\ _config_check_lock' = NoThread
            /\ probe_returns' = probe_returns \cup {"False"}
            /\ AfterProbe(t, "False")
    /\ UNCHANGED <<_already_analyzed, _clamd_socket, kb, calls, pings, scans,
                   contains_by, add_by, false_positive, overlapped, last_scan>>

\* VersionReturn with the lock kept when cd.version() raises.
VersionReturn_locked(t, version) ==
    /\ pc[t] = "L133"
    /\ IF version.ok
       THEN /\ om_out' = Append(om_out, [level |-> "information", arg |-> version.val])
            /\ _properly_configured' = "True"
            /\ _config_check_lock' = NoThread
            /\ probe_returns' = probe_returns \cup {"True"}
            /\ AfterProbe(t, "True")
       ELSE /\ Leave(t, Escapes(version.exc, 133), FALSE)
            /\ UNCHANGED <<om_out, _properly_configured, probe_returns,
                           _config_check_lock>>
    /\ UNCHANGED <<_already_analyzed, _clamd_socket, kb, calls, pings, scans,
                   contains_by, add_by, false_positive, overlapped, last_scan,
                   last_ping>>

\* cd.version() returns (lines 103-104, 113) or raises: the exception leaves
\* the with block, which releases the lock, and then grep.
VersionReturn(t, version) ==
    /\ pc[t] = "L133"
    /\ _config_check_lock' = NoThread
    /\ IF version.ok
       THEN /\ om_out' = Append(om_out, [level |-> "information", arg |-> version.val])
            /\ _properly_configured' = "True"
            /\ probe_returns' = probe_returns \cup {"True"}
            /\ AfterProbe(t, "True")
       ELSE /\ Leave(t, Escapes(version.exc, 133), FALSE)
            /\ UNCHANGED <<om_out, _properly_configured, probe_returns>>
    /\ UNCHANGED <<_already_analyzed, _clamd_socket, kb, calls, pings, scans,
                   contains_by, add_by, false_positive, overlapped, last_scan,
                   last_ping>>

\* Contains without the return of line 85.
Contains_ignored(t, seen) ==
    /\ pc[t] = "L84"
    /\ seen \in BloomContains(req[t].url)
    /\ contains_by' = contains_by \cup {req[t]}
    /\ false_positive' = (false_positive \/ (seen /\ req[t].url \notin _already_analyzed))
    /\ pc' = [pc EXCEPT ![t] = "L87"]
    /\ at_call' = [at_call EXCEPT ![t] = NoCall]
    /\ UNCHANGED <<req, escaped, finished, refused>>
    /\ UNCHANGED <<_already_analyzed, _properly_configured, _config_check_lock,
                   _clamd_socket, kb, om_out, calls, pings, scans, add_by,
                   probe_returns, overlapped, last_scan, last_ping>>

\* grep, lines 84-85.
Contains(t, seen) ==
    /\ pc[t] = "L84"
    /\ seen \in BloomContains(req[t].url)
    /\ contains_by' = contains_by \cup {req[t]}
    /\ false_positive' = (false_positive \/ (seen /\ req[t].url \notin _already_analyzed))
    /\ IF seen
       THEN Leave(t, Returns, TRUE)
       ELSE /\ pc' = [pc EXCEPT ![t] = "L87"]
            /\ at_call' = [at_call EXCEPT ![t] = NoCall]
            /\ UNCHANGED <<req, escaped, finished, refused>>
    /\ UNCHANGED <<_already_analyzed, _properly_configured, _config_check_lock,
                   _clamd_socket, kb, om_out, calls, pings, scans, add_by,
                   probe_returns, overlapped, last_scan,
                   last_ping>>

\* Add without the add of line 87.
Add_forgotten(t) ==
    /\ pc[t] = "L87"
    /\ add_by' = add_by \cup {req[t]}
    /\ Goto(t, "L142")
    /\ UNCHANGED <<_already_analyzed, _properly_configured, _config_check_lock,
                   _clamd_socket, kb, om_out, calls, pings, scans, contains_by,
                   probe_returns, false_positive, overlapped, last_scan,
                   last_ping>>

\* grep, line 87.
Add(t) ==
    /\ pc[t] = "L87"
    /\ _already_analyzed' = _already_analyzed \cup {req[t].url}
    /\ add_by' = add_by \cup {req[t]}
    /\ Goto(t, "L142")
    /\ UNCHANGED <<_properly_configured, _config_check_lock, _clamd_socket, kb,
                   om_out, calls, pings, scans, contains_by, probe_returns,
                   false_positive, overlapped, last_scan,
                   last_ping>>

\* _scan_http_response, lines 142-144: the body is sent to clamd.
Dispatch(t) ==
    /\ pc[t] = "L142"
    /\ scans' = [scans EXCEPT ![req[t].url] = @ + 1]
    /\ Goto(t, "L144")
    /\ UNCHANGED <<_already_analyzed, _properly_configured, _config_check_lock,
                   _clamd_socket, kb, om_out, calls, pings, contains_by, add_by,
                   probe_returns, false_positive, overlapped, last_scan,
                   last_ping>>

\* ScanReturn with the URL taken out of the filter when the scan is abandoned.
ScanReturn_retry(t, scan) ==
    /\ pc[t] = "L144"
    /\ LET url == req[t].url
           parsed == _parse_scan_result(scan.val)
           found == GetAttrFound(parsed.ret)
           this == [done |-> TRUE, url |-> url, raw |-> scan, parsed |-> NoParse,
                    raised |-> "", appended |-> <<>>]
       IN  IF ~scan.ok
           THEN /\ last_scan' = [this EXCEPT !.raised = scan.exc]
                /\ Leave(t, Escapes(scan.exc, 144), TRUE)
                /\ _already_analyzed' = _already_analyzed \ {url}
                /\ UNCHANGED <<kb, om_out>>
           ELSE /\ om_out' = om_out \o parsed.log
                /\ IF ~found.ok
                   THEN /\ last_scan' = [this EXCEPT !.parsed = parsed,
                                                     !.raised = found.exc]
                        /\ Leave(t, Escapes(found.exc, 147), TRUE)
                        /\ _already_analyzed' = _already_analyzed \ {url}
                        /\ UNCHANGED kb
                   ELSE /\ kb' = IF found.val
                                 THEN Append(kb, Finding(url, parsed.ret.signature))
                                 ELSE kb
                        /\ last_scan' = [this EXCEPT
                               !.parsed = parsed,
                               !.appended = SubSeq(kb', Len(kb) + 1, Len(kb'))]
                        /\ Leave(t, Returns, TRUE)
                        /\ UNCHANGED _already_analyzed
    /\ UNCHANGED <<_properly_configured, _config_check_lock,
                   _clamd_socket, calls, pings, scans, contains_by, add_by,
                   probe_returns, false_positive, overlapped,
                   last_ping>>

\* cd.instream() returns or raises: lines 144-156.
ScanReturn(t, scan) ==
    /\ pc[t] = "L144"
    /\ LET url == req[t].url
           parsed == _parse_scan_result(scan.val)
           found == GetAttrFound(parsed.ret)
           this == [done |-> TRUE, url |-> url, raw |-> scan, parsed |-> NoParse,
                    raised |-> "", appended |-> <<>>]
       IN  IF ~scan.ok
           THEN /\ last_scan' = [this EXCEPT !.raised = scan.exc]
                /\ Leave(t, Escapes(scan.exc, 144), TRUE)
                /\ UNCHANGED <<kb, om_out>>
           ELSE /\ om_out' = om_out \o parsed.log
                /\ IF ~found.ok
                   THEN /\ last_scan' = [this EXCEPT !.parsed = parsed,
                                                     !.raised = found.exc]
                        /\ Leave(t, Escapes(found.exc, 147), TRUE)
                        /\ UNCHANGED kb
                   ELSE /\ kb' = IF found.val
                                 THEN Append(kb, Finding(url, parsed.ret.signature))
                                 ELSE kb
                        /\ last_scan' = [this EXCEPT
                               !.parsed = parsed,
                               !.appended = SubSeq(kb', Len(kb) + 1, Len(kb'))]
                        /\ Leave(t, Returns, TRUE)
    /\ UNCHANGED <<_already_analyzed, _properly_configured, _config_check_lock,
                   _clamd_socket, calls, pings, scans, contains_by, add_by,
                   probe_returns, false_positive, overlapped,
                   last_ping>>

\* SetOptions that also forgets the result of the probe.
SetOptions_reset(path) ==
    /\ path # _clamd_socket
    /\ _clamd_socket' = path
    /\ _properly_configured' = "None"
    /\ UNCHANGED <<_already_analyzed, _config_check_lock,
                   kb, om_out, pc, req, escaped, calls, pings, scans,
                   contains_by, add_by, probe_returns, false_positive,
                   overlapped, finished, refused, last_scan,
                   at_call, last_ping>>

\* set_options
SetOptions(path) ==
    /\ path # _clamd_socket
    /\ _clamd_socket' = path
    /\ UNCHANGED <<_already_analyzed, _properly_configured, _config_check_lock,
                   kb, om_out, pc, req, escaped, calls, pings, scans,
                   contains_by, add_by, probe_returns, false_positive,
                   overlapped, finished, refused, last_scan,
                   at_call, last_ping>>

Next ==
    \/ \E t \in Threads, r \in Requests : GrepCall(t, r)
    \/ \E t \in Threads : ProbeCached(t)
    \/ \E t \in Threads : ProbeStart(t)
    \/ \E t \in Threads, ping \in PingOutcomes : PingReturn(t, ping)
    \/ \E t \in Threads, version \in VersionOutcomes : VersionReturn(t, version)
    \/ \E t \in Threads, seen \in BOOLEAN : Contains(t, seen)
    \/ \E t \in Threads : Add(t)
    \/ \E t \in Threads : Dispatch(t)
    \/ \E t \in Threads, scan \in ScanOutcomes : ScanReturn(t, scan)
    \/ \E path \in SocketPaths : SetOptions(path)

Spec == Init /\ [][Next]_vars

\* Thread t takes the lock of line 96.
Acquire(t) == ProbeCached(t) \/ ProbeStart(t)

\* Thread t runs a step of grep that waits for no other thread: a daemon
\* call returns or raises, or the thread executes its next statement.
Run(t) ==
    \/ \E ping \in PingOutcomes : PingReturn(t, ping)
    \/ \E version \in VersionOutcomes : VersionReturn(t, version)
    \/ \E seen \in BOOLEAN : Contains(t, seen)
    \/ Add(t)
    \/ Dispatch(t)
    \/ \E scan \in ScanOutcomes : ScanReturn(t, scan)

\* Every thread keeps running, every daemon call ends, and a thread that
\* can take the lock again and again does take it.
FairSpec ==
    /\ Spec
    /\ \A t \in Threads : WF_vars(Run(t)) /\ SF_vars(Acquire(t))

(* ------------------------------ claims --------------------------------- *)

AllIdle == \A t \in Threads : pc[t] = "idle"

\* The shape clamd's answer is expected to have: {'stream': (status, sig)}.
WellFormed(r) ==
    /\ r.t = "dict"
    /\ "stream" \in DOMAIN r.v
    /\ r.v.stream.t = "tuple"
    /\ Len(r.v.stream.v) = 2

\* An answer on which indexing fails: no 'stream' key, or a stream value
\* that cannot be indexed or has fewer than two elements.
Unindexable(r) ==
    \/ r.t # "dict"
    \/ "stream" \notin DOMAIN r.v
    \/ r.v.stream.t \notin {"tuple", "str"}
    \/ Len(r.v.stream.v) < 2

\* C1 (as claimed): the health check, cd.ping(), is executed at most once in
\* total however many callers invoke the probe, exactly once as soon as one
\* of them has got an answer, and all callers get the same boolean.
C1_ProbeResolvesOnce ==
    /\ pings <= 1
    /\ probe_returns # {} => pings = 1
    /\ Cardinality(probe_returns) <= 1

\* C2 (as claimed): when the filter has given no false positive, concurrent
\* grep calls for the same URL dispatch at most one scan of it to clamd, and
\* append at most one finding for it.
C2_ConcurrentDedup ==
    ~false_positive =>
        \A u \in URLs :
            /\ scans[u] <= 1
            /\ Cardinality({i \in 1..Len(kb) : kb[i].url = u}) <= 1

\* C3: for every URL whose grep calls never overlapped, at most one scan of
\* it has been sent to clamd, and exactly one once such a call (allowed, with
\* scanning enabled) has ended and the filter has given no false positive.
C3_IdempotentDedup ==
    \A u \in URLs :
        ~overlapped[u] =>
            /\ scans[u] <= 1
            /\ (~false_positive /\ finished[u] >= 1) => scans[u] = 1

\* Two calls for the same URL, one after the other, have ended: one scan.
C3_Witness ==
    \E u \in URLs :
        /\ ~overlapped[u]
        /\ ~false_positive
        /\ finished[u] = 2
        /\ scans[u] = 1

\* C4: when the probe has resolved to False, the filter has never been tested
\* or added to, no scan has been sent, nothing has been appended to the
\* knowledge base, and no grep call is past line 78.
C4_SkipOnDisabled ==
    _properly_configured = "False" =>
        /\ contains_by = {}
        /\ add_by = {}
        /\ _already_analyzed = {}
        /\ \A u \in URLs : scans[u] = 0
        /\ kb = <<>>
        /\ ~last_scan.done
        /\ \A t \in Threads : pc[t] \in {"idle", "L96"}

\* Every call has ended, the first resolved the probe to False and the later
\* ones read the cached False.
C4_Witness ==
    /\ _properly_configured = "False"
    /\ pings = 1
    /\ calls = MaxCalls
    /\ AllIdle
    /\ probe_returns = {"False"}

\* C5: a scan whose verdict has found = True makes exactly one call of
\* kb_append, under 'malware', with the URL of the scanned response and a
\* description naming the signature; any other scan makes none.
C5_ReportingGate ==
    /\ \A i \in 1..Len(kb) : kb[i].category = "malware"
    /\ last_scan.done =>
         IF last_scan.parsed.ret.t = "ScanResult" /\ last_scan.parsed.ret.found
         THEN /\ Len(last_scan.appended) = 1
              /\ last_scan.appended[1].category = "malware"
              /\ last_scan.appended[1].url = last_scan.url
              /\ last_scan.appended[1].desc.url = last_scan.url
              /\ last_scan.parsed.ret.signature.t = "str" =>
                   last_scan.appended[1].desc.signature =
                       last_scan.parsed.ret.signature.v
         ELSE last_scan.appended = <<>>

\* clamd has reported the EICAR signature and the finding has been appended.
C5_Witness ==
    /\ last_scan.done
    /\ last_scan.raw = Value(StreamDict(PyTuple(<<S_FOUND, S_Eicar>>)))
    /\ Len(last_scan.appended) = 1
    /\ kb[Len(kb)].url = last_scan.url

\* C6: only requests with method GET and status code 200 ever test the
\* filter, add to it or stand past line 82, and the filter holds exactly the
\* URLs those requests added.
C6_MethodStatusGate ==
    /\ \A r \in contains_by \cup add_by : r.method = "GET" /\ r.code = 200
    /\ \A t \in Threads :
         pc[t] \in {"L84", "L87", "L142", "L144"} =>
             req[t].method = "GET" /\ req[t].code = 200
    /\ _already_analyzed = {r.url : r \in add_by}

\* A call for a URL was turned away at line 82; a later call for the same
\* URL, allowed, has found it not in the filter and goes on to scan it.
C6_Witness ==
    \E t \in Threads :
        /\ pc[t] = "L87"
        /\ req[t].url \in refused
        /\ ~overlapped[req[t].url]

\* C7 (as claimed): when cd.instream() raises, no exception leaves grep and
\* nothing is appended to the knowledge base.
C7_TransportFailureContained ==
    (last_scan.done /\ ~last_scan.raw.ok) =>
        /\ last_scan.raised = ""
        /\ last_scan.appended = <<>>

\* C8 (as claimed): when clamd's answer lacks the expected shape, no
\* exception leaves grep and nothing is appended to the knowledge base.
C8_MalformedIsSkip ==
    (last_scan.done /\ last_scan.raw.ok /\ ~WellFormed(last_scan.raw.val)) =>
        /\ last_scan.raised = ""
        /\ last_scan.appended = <<>>

\* What C9 says of a well-formed answer {'stream': (status, sig)}.
C9_WellFormedCase ==
    (last_scan.done /\ last_scan.raw.ok /\ WellFormed(last_scan.raw.val)) =>
        LET stream == last_scan.raw.val.v.stream.v IN
        /\ last_scan.parsed.ret.t = "ScanResult"
        /\ last_scan.parsed.ret.found = (stream[1] = S_FOUND)
        /\ last_scan.parsed.ret.signature = stream[2]
        /\ last_scan.parsed.raised = ""

\* C9 (as claimed): a well-formed answer is parsed to the verdict with found
\* iff the status is 'FOUND' and with the second element as signature, and
\* parsing {} fails with MalformedResponse.
C9_VerdictClassification_Original ==
    /\ C9_WellFormedCase
    /\ (last_scan.done /\ last_scan.raw = Value(EmptyDict)) =>
           last_scan.parsed.raised = "MalformedResponse"

\* C9 (amended): a well-formed answer is parsed to the verdict with found iff
\* the status is 'FOUND' and with the second element as signature; for an
\* answer on which indexing fails (such as {}), _parse_scan_result raises
\* nothing, logs the invalid response at debug level and returns None.
C9_VerdictClassification ==
    /\ C9_WellFormedCase
    /\ (last_scan.done /\ last_scan.raw.ok /\ Unindexable(last_scan.raw.val)) =>
           /\ last_scan.parsed.ret = PyNone
           /\ last_scan.parsed.raised = ""
           /\ Len(last_scan.parsed.log) = 1
           /\ last_scan.parsed.log[1].level = "debug"

\* clamd has answered {} and the parser has returned None.
C9_Witness ==
    /\ last_scan.done
    /\ last_scan.raw = Value(EmptyDict)
    /\ last_scan.parsed.ret = PyNone

\* C10 (as claimed): every verdict with found = False has signature None.
C10_VerdictInvariant_Original ==
    (last_scan.done /\ last_scan.parsed.ret.t = "ScanResult") =>
        (~last_scan.parsed.ret.found => last_scan.parsed.ret.signature = PyNone)

\* C10 (amended): a verdict with found = False has signature None exactly
\* when the second element of the answer's stream value is None: the parser
\* copies that element whatever the status is.
C10_VerdictInvariant ==
    (last_scan.done /\ last_scan.parsed.ret.t = "ScanResult") =>
        LET stream == last_scan.raw.val.v.stream IN
        ~last_scan.parsed.ret.found =>
            (last_scan.parsed.ret.signature = PyNone
                <=> (stream.t = "tuple" /\ stream.v[2] = PyNone))

\* A verdict with found = False and a signature: clamd answered
\* ('ERROR', <text>).
C10_Witness ==
    /\ last_scan.done
    /\ last_scan.parsed.ret.t = "ScanResult"
    /\ ~last_scan.parsed.ret.found
    /\ last_scan.parsed.ret.signature # PyNone

\* C11: _properly_configured changes only from None, to True or to False:
\* once it is True or False no step changes it; and every value that
\* _is_properly_configured returns is the resolved value, never None.
C11_ResolveOnce ==
    [][ /\ _properly_configured # "None" =>
             _properly_configured' = _properly_configured
        /\ _properly_configured' \in {"None", "True", "False"}
        /\ \A v \in probe_returns' \ probe_returns :
             v # "None" /\ v = _properly_configured' ]_vars

\* The probe resolved to True and a later call read the cached True.
C11_Witness ==
    /\ _properly_configured = "True"
    /\ probe_returns = {"True"}
    /\ pings = 1
    /\ calls >= 2
    /\ AllIdle

\* The error messages given to the output manager.
Errors == {i \in 1..Len(om_out) : om_out[i].level = "error"}

\* C12: when the latest ping raised or answered anything but 'PONG', the
\* probe is resolved to False, False is what it returned, and exactly one
\* error has been logged; the error names the socket path configured when it
\* is logged; and once the state is False no step pings again, changes the
\* state or lets a call past line 78.
C12_ProbeFailureDisables ==
    /\ [](/\ Cardinality(Errors) <= 1
          /\ (last_ping # NoPing /\ last_ping # Value("PONG")) =>
                /\ _properly_configured = "False"
                /\ "False" \in probe_returns
                /\ Cardinality(Errors) = 1
          /\ _properly_configured # "False" => Errors = {})
    /\ [][ /\ (Len(om_out') > Len(om_out)
               /\ om_out'[Len(om_out')].level = "error") =>
                  om_out'[Len(om_out')].arg = _clamd_socket
           /\ _properly_configured = "False" =>
                  /\ pings' = pings
                  /\ _properly_configured' = "False"
                  /\ \A t \in Threads : pc'[t] \in {"idle", "L96"} ]_vars

\* The connection to clamd failed on the first ping; the later calls found
\* scanning disabled.
C12_Witness ==
    /\ last_ping = Raise("ConnectionError")
    /\ _properly_configured = "False"
    /\ om_out = <<[level |-> "error", arg |-> DefaultSocket]>>
    /\ pings = 1
    /\ calls >= 2
    /\ AllIdle

\* Thread t's call began while another thread held the probe lock, and has
\* not taken the lock yet.
Waiting(t) == at_call[t].locked /\ pc[t] = "L96"

\* The step leaves the filter, the scans sent and the knowledge base alone.
NoScanEffect == UNCHANGED <<_already_analyzed, contains_by, add_by, scans, kb>>

\* C13 (as claimed): a call that reaches the probe while another caller's
\* health check is in progress is skipped: it ends without testing or adding
\* to the filter, scanning or reporting.
C13_StillResolvingSkips_Original ==
    [][ \A t \in Threads :
          (Waiting(t) /\ pc'[t] # "L96") => (pc'[t] = "idle" /\ NoScanEffect)
      ]_vars

\* C13 (amended): such a call waits for the lock: it takes no step while the
\* lock is held, and then acts on the state it finds: False ends the call
\* with no effect, True lets it go on to the guard of lines 80-82 and the
\* filter, None makes it ping clamd itself.
C13_StillResolvingWaits ==
    [][ \A t \in Threads :
          Waiting(t) =>
            /\ _config_check_lock # NoThread => pc'[t] = "L96"
            /\ pc'[t] # "L96" =>
                 /\ NoScanEffect
                 /\ _properly_configured = "False" => pc'[t] = "idle"
                 /\ _properly_configured = "True" =>
                      pc'[t] = IF req[t].method = "GET" /\ req[t].code = 200
                               THEN "L84" ELSE "idle"
                 /\ _properly_configured = "None" =>
                      (pc'[t] = "L121" /\ pings' = pings + 1)
      ]_vars

\* A call that waited for the lock finds scanning enabled and its request
\* allowed: it is about to test the filter.
C13_Witness ==
    \E t \in Threads :
        /\ Waiting(t)
        /\ _config_check_lock = NoThread
        /\ _properly_configured = "True"
        /\ req[t].method = "GET" /\ req[t].code = 200

\* C14: each thread sends a URL to clamd at most once, so n threads racing
\* on the test and the add of lines 84-87 send it at most n times (twice for
\* two threads); and a call that began when the URL was already in the
\* filter ends at line 85 without adding or sending anything.
C14_BoundedDedupRace ==
    /\ [](\A u \in URLs : scans[u] <= Cardinality(Threads))
    /\ [][ \A t \in Threads :
             (pc[t] = "L84" /\ at_call[t].seen /\ pc'[t] # "L84") =>
                 /\ pc'[t] = "idle"
                 /\ scans' = scans
                 /\ _already_analyzed' = _already_analyzed ]_vars

\* Both threads have sent the same URL, and a call for it that began
\* afterwards stands at the test of the filter.
C14_Witness ==
    \E t \in Threads :
        /\ pc[t] = "L84"
        /\ at_call[t].seen
        /\ scans[req[t].url] = Cardinality(Threads)

\* C15 (as claimed): the guard on method and status code comes first, so a
\* call with a disallowed method or code never runs the health check.
C15_EntryGateFirst_Original ==
    \A t \in Threads :
        pc[t] \in {"L121", "L133"} =>
            (req[t].method = "GET" /\ req[t].code = 200)

\* C15 (amended): the probe comes first: a call is turned away by the guard
\* of lines 80-82 only once the probe has returned True, and only calls that
\* found the probe True and passed the guard go on to the filter.
C15_ProbeBeforeGate ==
    /\ refused # {} => _properly_configured = "True"
    /\ \A t \in Threads :
         pc[t] \in {"L84", "L87", "L142", "L144"} =>
             /\ _properly_configured = "True"
             /\ req[t].method = "GET" /\ req[t].code = 200

\* A call with method POST runs the health check.
C15_Witness ==
    \E t \in Threads :
        /\ pc[t] = "L121"
        /\ req[t].method = "POST"
        /\ _config_check_lock = t
        /\ pings = 1

\* C16: a finding for a URL is appended only by the call whose scan of that
\* URL has just returned a verdict with found = True; a scan of a URL is sent
\* only by a call that has added the URL to the filter; and the filter is
\* added to only by a call that found the probe True.
C16_PerResourceOrdering ==
    /\ [](\A t \in Threads :
            /\ pc[t] \in {"L87", "L142", "L144"} => _properly_configured = "True"
            /\ pc[t] \in {"L142", "L144"} =>
                  (req[t].url \in _already_analyzed /\ req[t] \in add_by)
            /\ pc[t] = "L144" => scans[req[t].url] >= 1)
    /\ [][ /\ kb' # kb =>
                \E t \in Threads :
                    /\ pc[t] = "L144" /\ pc'[t] = "idle"
                    /\ Len(kb') = Len(kb) + 1
                    /\ SubSeq(kb', 1, Len(kb)) = kb
                    /\ kb'[Len(kb')].url = req[t].url
                    /\ last_scan'.url = req[t].url
                    /\ last_scan'.parsed.ret.t = "ScanResult"
                    /\ last_scan'.parsed.ret.found
           /\ scans' # scans =>
                \E t \in Threads :
                    /\ pc[t] = "L142" /\ pc'[t] = "L144"
                    /\ req[t].url \in _already_analyzed
                    /\ scans' = [scans EXCEPT ![req[t].url] = @ + 1]
           /\ _already_analyzed' # _already_analyzed =>
                \E t \in Threads :
                    /\ pc[t] = "L87" /\ pc'[t] = "L142"
                    /\ _properly_configured = "True"
                    /\ _already_analyzed' = _already_analyzed \cup {req[t].url}
         ]_vars

\* The scan of one URL has been reported while the scan of the other URL is
\* still with clamd.
C16_Witness ==
    /\ Len(kb) = 1
    /\ kb[1].url = "http://x/other"
    /\ scans["http://x/other"] = 1
    /\ \E t \in Threads : pc[t] = "L144" /\ req[t].url = "http://x/test"

\* C17: every call of grep by any thread ends (returning or raising), and
\* the lock is held only by a thread that is inside the with block of line
\* 96, so a thread that leaves grep never keeps it.
C17_EveryInvocationFinishes ==
    /\ \A t \in Threads : (pc[t] # "idle") ~> (pc[t] = "idle")
    /\ [](_config_check_lock # NoThread =>
             pc[_config_check_lock] \in {"L121", "L133"})

\* After a call left grep by the exception of cd.version(), one thread
\* waits for the lock while the other holds it during the version lookup.
C17_Witness ==
    /\ \E e \in escaped : e.line = 133
    /\ \E t, s \in Threads :
          /\ pc[t] = "L96"
          /\ _config_check_lock = s
          /\ pc[s] = "L133"

\* The latest scan was abandoned: cd.instream() raised, or its answer was
\* malformed and reading the verdict raised.
Abandoned == last_scan.done /\ last_scan.raised # ""

\* C18: the URL of an abandoned scan is in the filter; no step takes a URL
\* out of the filter; a scan is sent only by a call that has just added its
\* URL at line 87; and a call that tests the filter while its URL is in it
\* ends at line 85 without sending anything. So a call begun after the
\* abandoned scan of a URL never sends that URL again.
C18_NoRetryAfterAbandon ==
    /\ [](Abandoned => last_scan.url \in _already_analyzed)
    /\ [][ /\ _already_analyzed \subseteq _already_analyzed'
           /\ \A t \in Threads :
                /\ pc'[t] = "L142" /\ pc[t] # "L142" =>
                      (pc[t] = "L87" /\ req[t].url \in _already_analyzed')
                /\ (pc[t] = "L84" /\ req[t].url \in _already_analyzed
                      /\ pc'[t] # "L84") =>
                      (pc'[t] = "idle" /\ scans' = scans)
                /\ (pc[t] = "idle" /\ pc'[t] # "idle" /\ Abandoned
                      /\ req'[t].url = last_scan.url) =>
                      at_call'[t].seen ]_vars

\* The scan of a URL was abandoned, and a call for the same URL that began
\* after that call had ended stands at the test of the filter: the URL has
\* been sent once.
C18_Witness ==
    /\ Abandoned
    /\ ~overlapped[last_scan.url]
    /\ scans[last_scan.url] = 1
    /\ finished[last_scan.url] = 1
    /\ \E t \in Threads :
          /\ pc[t] = "L84"
          /\ req[t].url = last_scan.url
          /\ at_call[t].seen

\* C19 (as claimed): an error raised by cd.version() after a successful ping
\* never leaves grep, and once the latest ping has answered 'PONG' and the
\* version lookup is over the probe is resolved to True, so that no later
\* call pings again.
C19_VersionCannotBreakResolution ==
    /\ \A e \in escaped : e.line # 133
    /\ (last_ping = Value("PONG") /\ \A t \in Threads : pc[t] # "L133") =>
           _properly_configured = "True"
    /\ last_ping = Value("PONG") => \A t \in Threads : pc[t] # "L121"

\* C20: a step that changes _clamd_socket changes nothing else, in
\* particular neither _properly_configured nor the filter; and once the
\* probe is resolved no step pings or changes the resolved value, and every
\* call of the probe returns it, whatever the socket path has become.
C20_ReconfigurationDoesNotReprobe ==
    [][ /\ _clamd_socket' # _clamd_socket =>
             UNCHANGED <<_already_analyzed, _properly_configured,
                         _config_check_lock, kb, om_out, pc, req, escaped,
                         calls, pings, scans, contains_by, add_by,
                         probe_returns, false_positive, overlapped, finished,
                         refused, at_call, last_ping, last_scan>>
        /\ _properly_configured # "None" =>
             /\ pings' = pings
             /\ _properly_configured' = _properly_configured
             /\ probe_returns' \subseteq probe_returns \cup {_properly_configured}
      ]_vars

\* The probe resolved to False against the default socket, the socket path
\* was then changed, and a call of grep is about to read the cached value.
C20_Witness ==
    /\ _properly_configured = "False"
    /\ _clamd_socket # DefaultSocket
    /\ pings = 1
    /\ Len(om_out) = 1
    /\ om_out[1].level = "error"
    /\ om_out[1].arg = DefaultSocket
    /\ \E t \in Threads : pc[t] = "L96"

====
